---- MODULE Spec2Model ----
(***************************************************************************)
(* Model of the market trend and sentiment analysis engine:                *)
(*   - FundingRateChart.set_analysis and the five computations it fans     *)
(*     out with asyncio.gather (src/src/app/chart_analysis.py);            *)
(*   - BitgetService.calculate_api_calls, convert_granularity_to_ms and    *)
(*     get_candlestick_chart (src/app/bitget_layer.py).                    *)
(*                                                                         *)
(* Spec      : one set_analysis call on a fresh FundingRateChart.  The     *)
(*             event loop is single threaded: an action is the code a      *)
(*             coroutine runs between two suspension points, and the only  *)
(*             suspension points are the upstream fetches.  A fetch is     *)
(*             answered with any series the upstream may hold.             *)
(* FairSpec  : Spec, with set_analysis resumed once gather has raised.     *)
(* SpecChunk : calculate_api_calls applied to windows drawn from bounded   *)
(*             sets (times in milliseconds).                               *)
(* SpecFetch : one get_candlestick_chart call against an upstream that     *)
(*             answers each request with any of a few batches, a status    *)
(*             other than 200 or a transport failure.                      *)
(* SpecFetchComplete : the same call against an upstream that holds every  *)
(*             bar and answers with the bars of the requested interval.    *)
(* SpecDirect : get_10m_variation and get_volatility_index called directly *)
(*             on a fresh instance, in either order.                       *)
(* SpecReentrant : two set_analysis calls with different periods on one    *)
(*             instance, interleaved by the event loop, against fixed      *)
(*             upstream data.                                              *)
(* SpecFetchTwice : get_candlestick_chart called twice with the same       *)
(*             arguments against a static upstream.                        *)
(* SpecTrend : the classifiers of get_daily_trend and get_weekly_trends    *)
(*             applied to quantities drawn from bounded sets.              *)
(* SpecFusion : the vote fusion of market_sentiment applied to quantities  *)
(*             drawn from bounded sets.                                    *)
(* SpecFetchFair : one get_candlestick_chart call on any window, reversed  *)
(*             ones included, with every step and answer taken in the end. *)
(* SpecSentiment : market_sentiment with the funding rate that             *)
(*             get_funding_rate returns.                                   *)
(***************************************************************************)
EXTENDS Integers, Sequences, FiniteSets, TLC

VARIABLES
    \* ---- set_analysis (chart_analysis.py) ----
    pc,               \* position of set_analysis
    task,             \* state of each fanned-out task
    ret,              \* value each fanned-out task returned
    df8h, df10m, dfdaily, dfweekly,   \* the instance's series fields
    attrs,            \* self.daily_trend, ... assigned at lines 51-56
    volatility_index, \* local of set_analysis, line 48
    sentiment,        \* local market_sentiment, line 59
    report,           \* the dict set_analysis returns
    fetched,          \* history: upstream windows requested, with counts
    writers,          \* history: which fanned-out tasks wrote each field
    h8_trace,         \* history: the fetches of the get_8h_variation call
                      \* in progress (or the last one) and their answers
    m10_data,         \* the 1m series the upstream holds, when it is fixed
    current,          \* the set_analysis invocation the variables above are
                      \* the locals and tasks of
    other,            \* the locals and tasks of the instance's second
                      \* set_analysis invocation, if there is one
    \* ---- get_candlestick_chart (bitget_layer.py) ----
    fpc,              \* position of get_candlestick_chart
    granularity, start_time, end_time,  \* its arguments
    granularity_ms,   \* local, line 208
    api_calls,        \* local, line 209
    call_i,           \* loop index of line 214 (1-based)
    startTime, endTime,  \* params['startTime'], params['endTime']
    requests,         \* history: the upstream requests issued, in order
    responses,        \* history: the upstream's answers received, in order
    final_result,     \* the accumulated series (timestamps)
    \* ---- calls of pure computations, and repeated calls ----
    args,             \* the inputs a classifier or the vote fusion is applied to
    outcome,          \* what it returned
    upstream,         \* the fixture a static upstream answers from
    first_run         \* history: requests and series of the first of two runs

analysisVars == <<pc, task, ret, df8h, df10m, dfdaily, dfweekly, attrs,
                  volatility_index, sentiment, report, fetched, writers,
                  h8_trace, m10_data, current, other>>
fetchVars == <<fpc, granularity, start_time, end_time, granularity_ms,
               api_calls, call_i, startTime, endTime, requests, responses,
               final_result>>
callVars == <<args, outcome, upstream, first_run>>
vars == <<analysisVars, fetchVars, callVars>>

\* ------------------------------------------------------------------------
\* Bounds of the model
\* ------------------------------------------------------------------------
\* longest short-horizon (1m) series the upstream answers with
MaxRows == 3
\* windows hold up to MaxPages full pages of max_candles_per_call bars ...
MaxPages == 2
\* ... give or take up to MaxExtra bars, and the small windows hold 0..MaxExtra
MaxExtra == 2
\* Time is counted in ticks of 1/TicksPerSecond second, not in milliseconds:
\* the code's factor 1000 in convert_granularity_to_ms is TicksPerSecond here
\* (30 days in milliseconds exceed the model checker's integers).
TicksPerSecond == 1

\* a key that the request parameters (params, lines 200-205) do not hold
Absent == 0 - 1

\* ------------------------------------------------------------------------
\* Series and upstream data for set_analysis
\* ------------------------------------------------------------------------
\* A closing price is a positive number, a non-positive number or NaN.
CloseKinds == {"ok", "nonpos", "nan"}

SeqsUpTo(S, n) == UNION {[1..k -> S] : k \in 0..n}

\* None, and a DataFrame built from fetched rows of one (granularity, window)
NoFrame == [present |-> FALSE, src |-> "", rows |-> <<>>]
Frame(src, rows) == [present |-> TRUE, src |-> src, rows |-> rows]

\* What get_candlestick_chart may return for a window: the rows' closes.
\* Only the 1m series' closes are read by later steps; the other series
\* are told apart by being empty or not.
UpstreamSeries(gran) ==
    IF gran = "1m" THEN SeqsUpTo(CloseKinds, MaxRows)
    ELSE {<<>>, <<"ok">>}

\* candle_stick_data.any(): timestamps are positive, so a series with a row
\* has a truthy element
ArrAny(rows) == Len(rows) > 0

IsNotNan(c) == c # "nan"
IsPositive(c) == c = "ok"
\* dropna(subset=['close']) after to_numeric(errors='coerce')
DropNa(rows) == SelectSeq(rows, IsNotNan)
\* df[df['close'] > 0]
PositiveOnly(rows) == SelectSeq(rows, IsPositive)
\* the log_return column is NaN in the first row, which dropna then removes
DropFirst(rows) == IF Len(rows) = 0 THEN rows ELSE Tail(rows)

\* A float the computations produce is a finite number ("float"), NaN or
\* an infinity, depending on the prices and volumes of the series.
FloatKinds == {"float", "nan", "inf"}
\* a quotient of two Python floats: a float, or ZeroDivisionError when the
\* divisor is 0.0
QuotientOutcomes == FloatKinds \cup {"ZeroDivisionError"}

\* ------------------------------------------------------------------------
\* set_analysis: the fan-out
\* ------------------------------------------------------------------------
TaskIds == {"h8", "m10", "daily", "weekly", "volume"}
Fields == {"df8h", "df10m", "dfdaily", "dfweekly"}

\* the (granularity, window) pairs the engine requests
W8h == <<"1H", "p..p+8h">>
W8hCoarse == <<"4H", "p..p+8h">>
W10m == <<"1m", "p..p+10m">>
WDaily == <<"15m", "p-24h..p">>
WWeekly == <<"1H", "p..p+7d">>
WVolume == <<"1H", "p..p+24h">>
WVolumeWeekly == <<"4H", "p-7d..p">>
Windows == {W8h, W8hCoarse, W10m, WDaily, WWeekly, WVolume, WVolumeWeekly}

\* a call of bitget_service.get_candlestick_chart for window w
Fetch(w) == [fetched EXCEPT ![w] = @ + 1]

\* mutant: only the first coroutine is started before its result is awaited
\* (await in a loop)
GatheredTasksFirstOnly == {"h8"}

\* the coroutines asyncio.gather turns into tasks, lines 37-45
GatheredTasks == TaskIds

\* no second invocation
NoCall == [pc |-> "none"]

InitAnalysis ==
    /\ pc = "pending"
    /\ task = [t \in TaskIds |-> "created"]
    /\ ret = [t \in TaskIds |-> "unset"]
    /\ df8h = NoFrame
    /\ df10m = NoFrame
    /\ dfdaily = NoFrame      \* __init__ sets dfdialy; dfdaily is first set by a task
    /\ dfweekly = NoFrame
    /\ attrs = "unset"
    /\ volatility_index = "unset"
    /\ sentiment = "unset"
    /\ report = "unset"
    /\ fetched = [w \in Windows |-> 0]
    /\ writers = [f \in Fields |-> {}]
    /\ h8_trace = <<>>
    /\ m10_data = <<>>
    /\ current = "A"
    /\ other = NoCall

\* lines 37-45: the coroutine objects are made, gather wraps each in a task
\* and set_analysis suspends on the gathered future
set_analysis_gather ==
    /\ pc = "pending"
    /\ pc' = "gather"
    /\ task' = [t \in TaskIds |-> IF t \in GatheredTasks THEN "scheduled" ELSE task[t]]
    /\ UNCHANGED <<ret, df8h, df10m, dfdaily, dfweekly, attrs, volatility_index,
                   sentiment, report, fetched, writers>>
    /\ UNCHANGED <<h8_trace, m10_data, current, other>>
    /\ UNCHANGED fetchVars
    /\ UNCHANGED callVars

\* a scheduled task runs to its first suspension point: its fetch
TaskWindow(t) ==
    CASE t = "h8" -> W8h
      [] t = "m10" -> W10m
      [] t = "daily" -> WDaily
      [] t = "weekly" -> WWeekly
      [] t = "volume" -> WVolume

task_start(t) ==
    /\ task[t] = "scheduled"
    /\ task' = [task EXCEPT ![t] = "fetching"]
    /\ fetched' = Fetch(TaskWindow(t))
    /\ h8_trace' = IF t = "h8" THEN <<"fetch_1H">> ELSE h8_trace
    /\ UNCHANGED <<pc, ret, df8h, df10m, dfdaily, dfweekly, attrs,
                   volatility_index, sentiment, report, writers, m10_data, current, other>>
    /\ UNCHANGED fetchVars
    /\ UNCHANGED callVars

Wrote(f, t) == [writers EXCEPT ![f] = @ \cup {t}]

\* what a fetch of get_8h_variation was answered with
Answer(data) == IF ArrAny(data) THEN "data" ELSE "empty"

\* mutant: the 4H series is fetched whatever the 1H fetch returned
FetchAgainAlways(data) == TRUE

\* line 88: not candle_stick_data.any()
FetchAgain(data) == ~ArrAny(data)

\* get_8h_variation, lines 86-103, resumed with the 1H series; v is the
\* outcome of the quotients of lines 100-101
get_8h_variation_resume(data, v) ==
    /\ task["h8"] = "fetching"
    /\ IF FetchAgain(data)
       THEN /\ fetched' = Fetch(W8hCoarse)
            /\ task' = [task EXCEPT !["h8"] = "fetching_4H"]
            /\ h8_trace' = h8_trace \o <<Answer(data), "fetch_4H">>
            /\ UNCHANGED <<df8h, writers, ret>>
       ELSE /\ df8h' = Frame(W8h, data)
            /\ writers' = Wrote("df8h", "h8")
            /\ h8_trace' = Append(h8_trace, Answer(data))
            /\ IF v = "ZeroDivisionError"
                  THEN /\ task' = [task EXCEPT !["h8"] = "failed"]
                       /\ UNCHANGED ret
                  ELSE /\ task' = [task EXCEPT !["h8"] = "done"]
                       /\ ret' = [ret EXCEPT !["h8"] = v]
            /\ UNCHANGED fetched
    /\ UNCHANGED <<pc, df10m, dfdaily, dfweekly, attrs, volatility_index,
                   sentiment, report, m10_data, current, other>>
    /\ UNCHANGED fetchVars
    /\ UNCHANGED callVars

\* get_8h_variation, lines 89-103, resumed with the 4H series
get_8h_variation_fallback(data, v) ==
    /\ task["h8"] = "fetching_4H"
    /\ IF ArrAny(data)
       THEN /\ df8h' = Frame(W8hCoarse, data)
            /\ writers' = Wrote("df8h", "h8")
            /\ h8_trace' = Append(h8_trace, Answer(data))
            /\ IF v = "ZeroDivisionError"
                  THEN /\ task' = [task EXCEPT !["h8"] = "failed"]
                       /\ UNCHANGED ret
                  ELSE /\ task' = [task EXCEPT !["h8"] = "done"]
                       /\ ret' = [ret EXCEPT !["h8"] = v]
       ELSE \* line 91: raise Exception
            /\ task' = [task EXCEPT !["h8"] = "failed"]
            /\ h8_trace' = h8_trace \o <<Answer(data), "raise">>
            /\ UNCHANGED <<df8h, writers, ret>>
    /\ UNCHANGED <<pc, df10m, dfdaily, dfweekly, attrs, volatility_index,
                   sentiment, report, fetched, m10_data, current, other>>
    /\ UNCHANGED fetchVars
    /\ UNCHANGED callVars

\* what get_10m_variation returns for the cleaned rows, lines 126-136; v is
\* the outcome of the quotient of line 135
Variation10m(rows, v) == IF Len(rows) < 2 THEN "0.0" ELSE v

\* get_10m_variation, lines 112-136
get_10m_variation_resume(data, v) ==
    /\ task["m10"] = "fetching"
    /\ IF ArrAny(data)
       THEN /\ df10m' = Frame(W10m, DropNa(data))
            /\ writers' = Wrote("df10m", "m10")
            /\ IF Variation10m(DropNa(data), v) = "ZeroDivisionError"
                  THEN /\ task' = [task EXCEPT !["m10"] = "failed"]
                       /\ UNCHANGED ret
                  ELSE /\ task' = [task EXCEPT !["m10"] = "done"]
                       /\ ret' = [ret EXCEPT !["m10"] = Variation10m(DropNa(data), v)]
       ELSE \* line 113: raise Exception
            /\ task' = [task EXCEPT !["m10"] = "failed"]
            /\ UNCHANGED <<df10m, writers, ret>>
    /\ UNCHANGED <<pc, df8h, dfdaily, dfweekly, attrs, volatility_index,
                   sentiment, report, fetched>>
    /\ UNCHANGED <<h8_trace, m10_data, current, other>>
    /\ UNCHANGED fetchVars
    /\ UNCHANGED callVars

\* get_daily_trend, lines 156-237
get_daily_trend_resume(data) ==
    /\ task["daily"] = "fetching"
    /\ IF ArrAny(data)
       THEN /\ dfdaily' = Frame(WDaily, data)
            /\ writers' = Wrote("dfdaily", "daily")
            /\ ret' = [ret EXCEPT !["daily"] = "trend"]
       ELSE /\ ret' = [ret EXCEPT !["daily"] = "neutral"]
            /\ UNCHANGED <<dfdaily, writers>>
    /\ task' = [task EXCEPT !["daily"] = "done"]
    /\ UNCHANGED <<pc, df8h, df10m, dfweekly, attrs, volatility_index,
                   sentiment, report, fetched>>
    /\ UNCHANGED <<h8_trace, m10_data, current, other>>
    /\ UNCHANGED fetchVars
    /\ UNCHANGED callVars

\* get_weekly_trends, lines 259-327
get_weekly_trends_resume(data) ==
    /\ task["weekly"] = "fetching"
    /\ IF ArrAny(data)
       THEN /\ dfweekly' = Frame(WWeekly, data)
            /\ writers' = Wrote("dfweekly", "weekly")
            /\ task' = [task EXCEPT !["weekly"] = "done"]
            /\ ret' = [ret EXCEPT !["weekly"] = "trend"]
       ELSE /\ task' = [task EXCEPT !["weekly"] = "failed"]
            /\ UNCHANGED <<dfweekly, writers, ret>>
    /\ UNCHANGED <<pc, df8h, df10m, dfdaily, attrs, volatility_index,
                   sentiment, report, fetched>>
    /\ UNCHANGED <<h8_trace, m10_data, current, other>>
    /\ UNCHANGED fetchVars
    /\ UNCHANGED callVars

\* get_average_trading_volume, lines 398-418; line 416 stores the series in
\* self.dfdaily, the field get_daily_trend stores its own series in
get_average_trading_volume_resume(data, v) ==
    /\ task["volume"] = "fetching"
    /\ IF ArrAny(data)
       THEN /\ dfdaily' = Frame(WVolume, data)
            /\ writers' = Wrote("dfdaily", "volume")
            /\ task' = [task EXCEPT !["volume"] = "done"]
            /\ ret' = [ret EXCEPT !["volume"] = v]
       ELSE /\ task' = [task EXCEPT !["volume"] = "failed"]
            /\ UNCHANGED <<dfdaily, writers, ret>>
    /\ UNCHANGED <<pc, df8h, df10m, dfweekly, attrs, volatility_index,
                   sentiment, report, fetched>>
    /\ UNCHANGED <<h8_trace, m10_data, current, other>>
    /\ UNCHANGED fetchVars
    /\ UNCHANGED callVars

\* ------------------------------------------------------------------------
\* set_analysis: after the fan-out
\* ------------------------------------------------------------------------
AllDone == \A t \in TaskIds : task[t] = "done"
SomeFailed == \E t \in TaskIds : task[t] = "failed"

\* mutant: the join returns with the first task to finish
GatherFirstCompleted == \E t \in TaskIds : task[t] = "done"

\* mutant: gather(return_exceptions=True), a failed task counts as a result
GatherReturnExceptions == \A t \in TaskIds : task[t] \in {"done", "failed"}

\* when the future of asyncio.gather (return_exceptions=False) has its
\* result: every gathered task has returned
GatherHasResult == AllDone

\* line 45, the gathered future has a result: set_analysis resumes with the
\* five values
set_analysis_join ==
    /\ pc = "gather"
    /\ GatherHasResult
    /\ pc' = "volatility"
    /\ UNCHANGED <<task, ret, df8h, df10m, dfdaily, dfweekly, attrs,
                   volatility_index, sentiment, report, fetched, writers>>
    /\ UNCHANGED <<h8_trace, m10_data, current, other>>
    /\ UNCHANGED fetchVars
    /\ UNCHANGED callVars

\* line 45, the gathered future has the first exception a task raised:
\* set_analysis raises it; the other tasks are not cancelled and run on
set_analysis_gather_raises ==
    /\ pc = "gather"
    /\ SomeFailed
    /\ pc' = "failed"
    /\ UNCHANGED <<task, ret, df8h, df10m, dfdaily, dfweekly, attrs,
                   volatility_index, sentiment, report, fetched, writers>>
    /\ UNCHANGED <<h8_trace, m10_data, current, other>>
    /\ UNCHANGED fetchVars
    /\ UNCHANGED callVars

\* get_volatility_index, lines 340-352: the rows it leaves in self.df10m
VolatilityRows(rows) == DropFirst(PositiveOnly(DropNa(rows)))
\* lines 355-376: its value for the rows left; v is the annualized standard
\* deviation of lines 360-369, which lines 372-374 turn into None when it
\* is NaN or an infinity
VolatilityValue(rows, v) ==
    IF Len(rows) < 2 THEN "None"
    ELSE IF v \in {"nan", "inf"} THEN "None" ELSE v

\* line 48, get_volatility_index (it has no suspension point), then the
\* assignments of lines 51-56
set_analysis_volatility(v) ==
    /\ pc = "volatility"
    /\ IF df10m.present
       THEN /\ df10m' = [df10m EXCEPT !.rows = VolatilityRows(@)]
            /\ volatility_index' = VolatilityValue(VolatilityRows(df10m.rows), v)
            /\ attrs' = "set"
            /\ pc' = "fusion"
       ELSE \* line 337: raise ValueError
            /\ pc' = "failed"
            /\ UNCHANGED <<df10m, volatility_index, attrs>>
    /\ UNCHANGED <<task, ret, df8h, dfdaily, dfweekly, sentiment, report,
                   fetched, writers>>
    /\ UNCHANGED <<h8_trace, m10_data, current, other>>
    /\ UNCHANGED fetchVars
    /\ UNCHANGED callVars

\* market_sentiment, lines 434-458: the check of the four fields, then the
\* call of get_8h_variation, which suspends in its 1H fetch
market_sentiment_start ==
    /\ pc = "fusion"
    /\ IF df8h.present /\ df10m.present /\ dfdaily.present /\ dfweekly.present
       THEN /\ pc' = "ms_8h"
            /\ fetched' = Fetch(W8h)
            /\ h8_trace' = <<"fetch_1H">>
       ELSE /\ pc' = "failed"
            /\ UNCHANGED <<fetched, h8_trace>>
    /\ UNCHANGED <<task, ret, df8h, df10m, dfdaily, dfweekly, attrs,
                   volatility_index, sentiment, report, writers, m10_data, current, other>>
    /\ UNCHANGED fetchVars
    /\ UNCHANGED callVars

\* line 458 resumed with the 1H series: get_8h_variation lines 88-103, then
\* line 459 calls get_10m_variation, which suspends in its fetch
market_sentiment_8h(data, v) ==
    /\ pc = "ms_8h"
    /\ IF FetchAgain(data)
       THEN /\ pc' = "ms_8h_4H"
            /\ fetched' = Fetch(W8hCoarse)
            /\ h8_trace' = h8_trace \o <<Answer(data), "fetch_4H">>
            /\ UNCHANGED df8h
       ELSE /\ df8h' = Frame(W8h, data)
            /\ h8_trace' = Append(h8_trace, Answer(data))
            /\ IF v = "ZeroDivisionError"
                  THEN /\ pc' = "failed"
                       /\ UNCHANGED fetched
                  ELSE /\ pc' = "ms_10m"
                       /\ fetched' = Fetch(W10m)
    /\ UNCHANGED <<task, ret, df10m, dfdaily, dfweekly, attrs,
                   volatility_index, sentiment, report, writers, m10_data, current, other>>
    /\ UNCHANGED fetchVars
    /\ UNCHANGED callVars

\* line 458 resumed with the 4H series of the fallback
market_sentiment_8h_fallback(data, v) ==
    /\ pc = "ms_8h_4H"
    /\ IF ArrAny(data)
       THEN /\ df8h' = Frame(W8hCoarse, data)
            /\ h8_trace' = Append(h8_trace, Answer(data))
            /\ IF v = "ZeroDivisionError"
                  THEN /\ pc' = "failed"
                       /\ UNCHANGED fetched
                  ELSE /\ pc' = "ms_10m"
                       /\ fetched' = Fetch(W10m)
       ELSE /\ pc' = "failed"
            /\ h8_trace' = h8_trace \o <<Answer(data), "raise">>
            /\ UNCHANGED <<df8h, fetched>>
    /\ UNCHANGED <<task, ret, df10m, dfdaily, dfweekly, attrs,
                   volatility_index, sentiment, report, writers, m10_data, current, other>>
    /\ UNCHANGED fetchVars
    /\ UNCHANGED callVars

\* line 459 resumed: get_10m_variation lines 112-136, get_funding_rate (no
\* suspension point), then line 496 calls get_average_trading_volume_weekly,
\* which suspends in its fetch
market_sentiment_10m(data, v) ==
    /\ pc = "ms_10m"
    /\ IF ArrAny(data)
       THEN /\ df10m' = Frame(W10m, DropNa(data))
            /\ IF Variation10m(DropNa(data), v) = "ZeroDivisionError"
                  THEN /\ pc' = "failed"
                       /\ UNCHANGED fetched
                  ELSE /\ pc' = "ms_volume_weekly"
                       /\ fetched' = Fetch(WVolumeWeekly)
       ELSE /\ pc' = "failed"
            /\ UNCHANGED <<df10m, fetched>>
    /\ UNCHANGED <<task, ret, df8h, dfdaily, dfweekly, attrs,
                   volatility_index, sentiment, report, writers>>
    /\ UNCHANGED <<h8_trace, m10_data, current, other>>
    /\ UNCHANGED fetchVars
    /\ UNCHANGED callVars

\* line 496 resumed: get_average_trading_volume_weekly lines 567-587, then
\* the votes and the label of lines 497-537
market_sentiment_volume_weekly(data) ==
    /\ pc = "ms_volume_weekly"
    /\ IF ArrAny(data)
       THEN /\ dfweekly' = Frame(WVolumeWeekly, data)
            /\ sentiment' = "label"
            /\ pc' = "report"
       ELSE /\ pc' = "failed"
            /\ UNCHANGED <<dfweekly, sentiment>>
    /\ UNCHANGED <<task, ret, df8h, df10m, dfdaily, attrs,
                   volatility_index, report, fetched, writers>>
    /\ UNCHANGED <<h8_trace, m10_data, current, other>>
    /\ UNCHANGED fetchVars
    /\ UNCHANGED callVars

\* mutant: only NaN is replaced, an infinity is kept
SanitizeNaNOnly(value) == IF value = "nan" THEN "None" ELSE value

\* lines 74-77: a float that is NaN or an infinity is replaced by None (the
\* variations are Python floats and the volatility and the volume are
\* numpy.float64, a subclass of float; the labels are str)
Sanitize(value) == IF value \in {"nan", "inf"} THEN "None" ELSE value

\* lines 61-79: the report is assembled, sanitized and returned
set_analysis_return ==
    /\ pc = "report"
    /\ report' = [h8_variation |-> Sanitize(ret["h8"]),
                  h10m_variation |-> Sanitize(ret["m10"]),
                  daily_trend |-> Sanitize(ret["daily"]),
                  weekly_trend |-> Sanitize(ret["weekly"]),
                  volatility_index |-> Sanitize(volatility_index),
                  average_trading_volume |-> Sanitize(ret["volume"]),
                  market_sentiment |-> Sanitize(sentiment)]
    /\ pc' = "done"
    /\ UNCHANGED <<task, ret, df8h, df10m, dfdaily, dfweekly, attrs,
                   volatility_index, sentiment, fetched, writers>>
    /\ UNCHANGED <<h8_trace, m10_data, current, other>>
    /\ UNCHANGED fetchVars
    /\ UNCHANGED callVars

\* ------------------------------------------------------------------------
\* Specification of one set_analysis call
\* ------------------------------------------------------------------------
InitFetchIdle ==
    /\ fpc = "idle"
    /\ granularity = ""
    /\ start_time = 0
    /\ end_time = 0
    /\ granularity_ms = 0
    /\ api_calls = <<>>
    /\ call_i = 0
    /\ startTime = Absent
    /\ endTime = Absent
    /\ requests = <<>>
    /\ responses = <<>>
    /\ final_result = <<>>

\* no pure computation is applied and no run is repeated
NoArgs == [fn |-> "none"]
NoRun == [done |-> FALSE]
InitCallIdle ==
    /\ args = NoArgs
    /\ outcome = "unset"
    /\ upstream = "any"
    /\ first_run = NoRun

Init == InitAnalysis /\ InitFetchIdle /\ InitCallIdle

Next ==
    \/ set_analysis_gather
    \/ \E t \in TaskIds : task_start(t)
    \/ \E data \in UpstreamSeries("1H"), v \in QuotientOutcomes :
          get_8h_variation_resume(data, v)
    \/ \E data \in UpstreamSeries("4H"), v \in QuotientOutcomes :
          get_8h_variation_fallback(data, v)
    \/ \E data \in UpstreamSeries("1m"), v \in QuotientOutcomes :
          get_10m_variation_resume(data, v)
    \/ \E data \in UpstreamSeries("15m") : get_daily_trend_resume(data)
    \/ \E data \in UpstreamSeries("1H") : get_weekly_trends_resume(data)
    \/ \E data \in UpstreamSeries("1H"), v \in FloatKinds :
          get_average_trading_volume_resume(data, v)
    \/ set_analysis_join
    \/ set_analysis_gather_raises
    \/ \E v \in FloatKinds : set_analysis_volatility(v)
    \/ market_sentiment_start
    \/ \E data \in UpstreamSeries("1H"), v \in QuotientOutcomes :
          market_sentiment_8h(data, v)
    \/ \E data \in UpstreamSeries("4H"), v \in QuotientOutcomes :
          market_sentiment_8h_fallback(data, v)
    \/ \E data \in UpstreamSeries("1m"), v \in QuotientOutcomes :
          market_sentiment_10m(data, v)
    \/ \E data \in UpstreamSeries("4H") : market_sentiment_volume_weekly(data)
    \/ set_analysis_return

Spec == Init /\ [][Next]_vars

\* set_analysis resumes as soon as the loop runs it: once the gathered
\* future holds an exception, the raise is not postponed for ever
FairSpec == Spec /\ WF_vars(set_analysis_gather_raises)


\* ------------------------------------------------------------------------
\* Direct calls of get_10m_variation and get_volatility_index
\* ------------------------------------------------------------------------
\* A caller holds a fresh FundingRateChart; it awaits get_10m_variation and
\* calls get_volatility_index, before or after the series is populated.
\* The upstream holds one 1m series for the window.
InitDirect ==
    /\ pc = "direct"
    /\ task = [t \in TaskIds |-> IF t = "m10" THEN "scheduled" ELSE "created"]
    /\ ret = [t \in TaskIds |-> "unset"]
    /\ df8h = NoFrame
    /\ df10m = NoFrame
    /\ dfdaily = NoFrame
    /\ dfweekly = NoFrame
    /\ attrs = "unset"
    /\ volatility_index = "unset"
    /\ sentiment = "unset"
    /\ report = "unset"
    /\ fetched = [w \in Windows |-> 0]
    /\ writers = [f \in Fields |-> {}]
    /\ h8_trace = <<>>
    /\ m10_data \in UpstreamSeries("1m")
    /\ current = "A"
    /\ other = NoCall
    /\ InitFetchIdle
    /\ InitCallIdle

\* mutant: a series never populated is answered like one with too few rows
UnpopulatedReturnsNone == "None"

\* lines 336-337: self.df10m is None, raise ValueError
UnpopulatedRaises == "ValueError"

\* get_volatility_index, lines 336-376, called by the caller
get_volatility_index_call ==
    /\ pc = "direct"
    /\ volatility_index = "unset"
    /\ IF df10m.present
       THEN /\ df10m' = [df10m EXCEPT !.rows = VolatilityRows(@)]
            /\ \E v \in FloatKinds :
                  volatility_index' = VolatilityValue(VolatilityRows(df10m.rows), v)
       ELSE /\ volatility_index' = UnpopulatedRaises
            /\ UNCHANGED df10m
    /\ UNCHANGED <<pc, task, ret, df8h, dfdaily, dfweekly, attrs, sentiment,
                   report, fetched, writers, h8_trace, m10_data, current, other>>
    /\ UNCHANGED fetchVars
    /\ UNCHANGED callVars

NextDirect ==
    \/ task_start("m10")
    \/ \E v \in QuotientOutcomes : get_10m_variation_resume(m10_data, v)
    \/ get_volatility_index_call

SpecDirect == InitDirect /\ [][NextDirect]_vars


\* ------------------------------------------------------------------------
\* Two set_analysis invocations on one FundingRateChart
\* ------------------------------------------------------------------------
\* Invocations A and B are called with different periods on the same
\* instance.  Each has its own locals and its own five tasks; the series
\* fields and the attributes of lines 51-56 belong to the instance.  The
\* event loop runs one invocation at a time and may turn to the other one
\* whenever the running one is suspended, that is between any two actions.
OtherOf(i) == IF i = "A" THEN "B" ELSE "A"

\* the locals and the tasks of the invocation that is running
Locals ==
    [pc |-> pc, task |-> task, ret |-> ret, volatility_index |-> volatility_index,
     sentiment |-> sentiment, report |-> report, h8_trace |-> h8_trace]

\* The upstream holds fixed data: for A's period a 1m series of MaxRows
\* candles, for B's period a 1m series of one candle, all with a positive
\* close, and a candle for every other window; every quotient is finite.
PeriodSeries(i, gran) ==
    IF gran = "1m" /\ i = "A" THEN [k \in 1..MaxRows |-> "ok"] ELSE <<"ok">>

InitReentrant ==
    /\ pc = "pending"
    /\ task = [t \in TaskIds |-> "created"]
    /\ ret = [t \in TaskIds |-> "unset"]
    /\ df8h = NoFrame
    /\ df10m = NoFrame
    /\ dfdaily = NoFrame
    /\ dfweekly = NoFrame
    /\ attrs = "unset"
    /\ volatility_index = "unset"
    /\ sentiment = "unset"
    /\ report = "unset"
    /\ fetched = [w \in Windows |-> 0]
    /\ writers = [f \in Fields |-> {}]
    /\ h8_trace = <<>>
    /\ m10_data = <<>>
    /\ current = "A"
    /\ other = Locals
    /\ InitFetchIdle
    /\ InitCallIdle

\* the event loop turns from the running invocation to the other one
switch_invocation ==
    /\ other.pc # NoCall.pc
    /\ current' = OtherOf(current)
    /\ other' = Locals
    /\ pc' = other.pc
    /\ task' = other.task
    /\ ret' = other.ret
    /\ volatility_index' = other.volatility_index
    /\ sentiment' = other.sentiment
    /\ report' = other.report
    /\ h8_trace' = other.h8_trace
    /\ UNCHANGED <<df8h, df10m, dfdaily, dfweekly, attrs, fetched, writers,
                   m10_data>>
    /\ UNCHANGED fetchVars
    /\ UNCHANGED callVars

NextReentrant ==
    \/ set_analysis_gather
    \/ \E t \in TaskIds : task_start(t)
    \/ get_8h_variation_resume(PeriodSeries(current, "1H"), "float")
    \/ get_10m_variation_resume(PeriodSeries(current, "1m"), "float")
    \/ get_daily_trend_resume(PeriodSeries(current, "15m"))
    \/ get_weekly_trends_resume(PeriodSeries(current, "1H"))
    \/ get_average_trading_volume_resume(PeriodSeries(current, "1H"), "float")
    \/ set_analysis_join
    \/ set_analysis_volatility("float")
    \/ market_sentiment_start
    \/ market_sentiment_8h(PeriodSeries(current, "1H"), "float")
    \/ market_sentiment_10m(PeriodSeries(current, "1m"), "float")
    \/ market_sentiment_volume_weekly(PeriodSeries(current, "4H"))
    \/ set_analysis_return
    \/ switch_invocation

SpecReentrant == InitReentrant /\ [][NextReentrant]_vars


\* ------------------------------------------------------------------------
\* The trend classifiers of get_daily_trend and get_weekly_trends
\* ------------------------------------------------------------------------
\* Prices and moving averages are counted in thousandths of a price unit,
\* percentages in hundredths of a percent.  NaN is what pandas gives for a
\* rolling mean over fewer rows than its window and for the standard
\* deviation of fewer than two values; a comparison with NaN is False.
NaN == 0 - 100000
Lt(a, b) == a # NaN /\ b # NaN /\ a < b
Gt(a, b) == a # NaN /\ b # NaN /\ a > b
Abs(x) == IF x < 0 THEN 0 - x ELSE x
\* abs(short - long) / long < permille / 1000
RelDiffBelow(short, long, permille) ==
    short # NaN /\ long # NaN /\ Abs(short - long) * 1000 < permille * long

\* "bearish" in trend, "bullish" in trend (lines 229-232)
HasBearish(trend) == trend \in {"bearish", "strongly bearish", "volatile bearish"}
HasBullish(trend) == trend \in {"bullish", "strongly bullish", "volatile bullish"}

\* get_daily_trend, lines 196-237: the label for the latest close, the
\* latest 5- and 15-row moving averages and the standard deviation of the
\* percentage price changes
daily_trend(latest_close, latest_ma5, latest_ma15, volatility) ==
    IF latest_ma5 = NaN \/ latest_ma15 = NaN THEN "neutral"
    ELSE
      LET cascade ==
              IF Lt(latest_close, latest_ma5) /\ Lt(latest_ma5, latest_ma15)
              THEN "strongly bearish"
              ELSE IF Gt(latest_close, latest_ma5) /\ Gt(latest_ma5, latest_ma15)
              THEN "strongly bullish"
              ELSE IF Lt(latest_close, latest_ma5) THEN "bearish"
              ELSE IF Gt(latest_close, latest_ma5) THEN "bullish"
              ELSE "neutral"
          trend ==
              IF RelDiffBelow(latest_ma5, latest_ma15, 3) THEN "sideways" ELSE cascade
      IN  IF Gt(volatility, 200)
          THEN IF HasBearish(trend) THEN "volatile bearish"
               ELSE IF HasBullish(trend) THEN "volatile bullish"
               ELSE "volatile"
          ELSE trend

\* get_weekly_trends, lines 285-327: the label for the latest close, the
\* latest 20- and 50-row moving averages, the standard deviation of the
\* percentage price changes and the percentage change over the week
weekly_trend(latest_close, latest_ma20, latest_ma50, volatility, weekly_change_pct) ==
    LET trend ==
            IF Gt(latest_close, latest_ma20) /\ Gt(latest_ma20, latest_ma50)
            THEN IF Gt(weekly_change_pct, 500) THEN "strongly bullish" ELSE "bullish"
            ELSE IF Lt(latest_close, latest_ma20) /\ Lt(latest_ma20, latest_ma50)
            THEN IF Lt(weekly_change_pct, 0 - 500) THEN "strongly bearish" ELSE "bearish"
            ELSE IF weekly_change_pct # NaN /\ Abs(weekly_change_pct) < 100 THEN "neutral"
            ELSE IF RelDiffBelow(latest_ma20, latest_ma50, 10) THEN "sideways"
            ELSE IF Gt(weekly_change_pct, 0) THEN "corrective"
            ELSE "volatile"
    IN  IF Gt(volatility, 200) THEN "volatile" ELSE trend

\* the quantities the classifiers read off a series that has a row
TrendPrices == {980, 999, 1000, 1001, 1020}
PctVolatilities == {NaN, 100, 300}
WeeklyChanges == {0 - 600, 0 - 200, 0, 200, 600}

\* A classifier is applied to the quantities of some series: a long moving
\* average is defined only if the short one is, the short one is defined
\* whenever the series is too short for a standard deviation, and only
\* get_weekly_trends computes the change over the week.
InitTrend ==
    /\ InitAnalysis
    /\ InitFetchIdle
    /\ args \in [fn : {"get_daily_trend", "get_weekly_trends"},
                 latest_close : TrendPrices,
                 ma_short : TrendPrices \cup {NaN},
                 ma_long : TrendPrices \cup {NaN},
                 volatility : PctVolatilities,
                 weekly_change_pct : WeeklyChanges \cup {NaN}]
    /\ args.ma_short = NaN => args.ma_long = NaN
    /\ args.volatility = NaN => args.ma_short = NaN
    /\ args.fn = "get_daily_trend" <=> args.weekly_change_pct = NaN
    /\ outcome = "unset"
    /\ upstream = "any"
    /\ first_run = NoRun

get_daily_trend_classify ==
    /\ args.fn = "get_daily_trend"
    /\ outcome = "unset"
    /\ outcome' = daily_trend(args.latest_close, args.ma_short, args.ma_long,
                              args.volatility)
    /\ UNCHANGED <<args, upstream, first_run>>
    /\ UNCHANGED <<analysisVars, fetchVars>>

get_weekly_trends_classify ==
    /\ args.fn = "get_weekly_trends"
    /\ outcome = "unset"
    /\ outcome' = weekly_trend(args.latest_close, args.ma_short, args.ma_long,
                               args.volatility, args.weekly_change_pct)
    /\ UNCHANGED <<args, upstream, first_run>>
    /\ UNCHANGED <<analysisVars, fetchVars>>

NextTrend ==
    \/ get_daily_trend_classify
    \/ get_weekly_trends_classify

SpecTrend == InitTrend /\ [][NextTrend]_vars


\* ------------------------------------------------------------------------
\* The vote fusion of market_sentiment (lines 446-537)
\* ------------------------------------------------------------------------
\* The funding rate is counted in hundredths, the volatility index and the
\* volume change in percent.

\* lines 446-455 and 487-492: None counts as 0.0
volatility_sentiment(index) ==
    IF Gt(index, 50) THEN "uncertain"
    ELSE IF Lt(index, 10) THEN "stable"
    ELSE "moderate"

\* lines 471-476
funding_sentiment(funding_rate) ==
    IF Gt(funding_rate, 10) THEN "bearish"
    ELSE IF Lt(funding_rate, 0 - 10) THEN "bullish"
    ELSE "neutral"

\* lines 479-484
price_sentiment(trend) ==
    IF trend \in {"strongly bullish", "highly bullish", "bullish"} THEN "bullish"
    ELSE IF trend \in {"strongly bearish", "highly bearish", "bearish"} THEN "bearish"
    ELSE "neutral"

\* lines 499-504
volume_sentiment(volume_change) ==
    IF Gt(volume_change, 20) THEN "optimistic"
    ELSE IF Lt(volume_change, 0 - 20) THEN "pessimistic"
    ELSE "neutral"

\* list.count over several values
RECURSIVE CountIn(_, _)
CountIn(sentiments, values) ==
    IF sentiments = <<>> THEN 0
    ELSE (IF Head(sentiments) \in values THEN 1 ELSE 0)
         + CountIn(Tail(sentiments), values)

\* mutant: two votes of one side are a strong majority
MajorityOfTwo(sentiments) ==
    LET bullish_count == CountIn(sentiments, {"bullish", "optimistic", "positive"})
        bearish_count == CountIn(sentiments, {"bearish", "pessimistic", "negative"})
    IN  IF bullish_count > bearish_count
        THEN IF bullish_count >= 2 THEN "highly positive" ELSE "positive"
        ELSE IF bearish_count > bullish_count
        THEN IF bearish_count >= 2 THEN "highly negative" ELSE "negative"
        ELSE "mixed"

\* lines 510-524
Majority(sentiments) ==
    LET bullish_count == CountIn(sentiments, {"bullish", "optimistic", "positive"})
        bearish_count == CountIn(sentiments, {"bearish", "pessimistic", "negative"})
    IN  IF bullish_count > bearish_count
        THEN IF bullish_count >= 3 THEN "highly positive" ELSE "positive"
        ELSE IF bearish_count > bullish_count
        THEN IF bearish_count >= 3 THEN "highly negative" ELSE "negative"
        ELSE "mixed"

\* mutant: the override comes after the tightening and spares its labels
AdjustForVolatilityUnlessTightened(label, volatility_vote) ==
    IF volatility_vote = "uncertain" /\ label \notin {"positive", "negative"}
    THEN "uncertain" ELSE label

\* lines 527-528
AdjustForVolatility(label, volatility_vote) ==
    IF volatility_vote = "uncertain" THEN "uncertain" ELSE label

\* lines 531-534
Tighten(label, price_vote) ==
    IF label = "positive" /\ price_vote = "bullish" THEN "bullish"
    ELSE IF label = "negative" /\ price_vote = "bearish" THEN "bearish"
    ELSE label

\* line 507
Sentiments(funding_rate, trend, index, volume_change) ==
    <<funding_sentiment(funding_rate), price_sentiment(trend),
      volatility_sentiment(index), volume_sentiment(volume_change)>>

\* lines 466-537
market_sentiment(funding_rate, trend, index, volume_change) ==
    Tighten(AdjustForVolatility(
                Majority(Sentiments(funding_rate, trend, index, volume_change)),
                volatility_sentiment(index)),
            price_sentiment(trend))

\* get_funding_rate returns 0.01 until it is implemented (lines 539-545); a
\* funding rate beyond either threshold stands for an implementation
FundingRates == {0 - 20, 1, 20}
\* the labels get_daily_trend returns (lines 203-237)
DailyTrends ==
    {"strongly bullish", "bullish", "neutral", "sideways", "bearish",
     "strongly bearish", "volatile bullish", "volatile bearish", "volatile"}
VolatilityIndexes == {NaN, 0, 30, 60}
VolumeChanges == {NaN, 0 - 30, 0, 30}

InitFusion ==
    /\ InitAnalysis
    /\ InitFetchIdle
    /\ args \in [fn : {"market_sentiment"},
                 funding_rate : FundingRates,
                 daily_trend : DailyTrends,
                 volatility_index : VolatilityIndexes,
                 volume_change : VolumeChanges]
    /\ outcome = "unset"
    /\ upstream = "any"
    /\ first_run = NoRun

market_sentiment_fuse ==
    /\ args.fn = "market_sentiment"
    /\ outcome = "unset"
    /\ outcome' = market_sentiment(args.funding_rate, args.daily_trend,
                                   args.volatility_index, args.volume_change)
    /\ UNCHANGED <<args, upstream, first_run>>
    /\ UNCHANGED <<analysisVars, fetchVars>>

NextFusion == market_sentiment_fuse

SpecFusion == InitFusion /\ [][NextFusion]_vars

\* ------------------------------------------------------------------------
\* market_sentiment with the funding rate the program provides
\* ------------------------------------------------------------------------
\* get_funding_rate, lines 539-545: 0.01 for every period
get_funding_rate(period) == 1

\* the periods set_analysis is called with (bar indices)
SentimentPeriods == {0, 1, 2}

\* market_sentiment(period) is called after the gathered computations and
\* the volatility step have set the attributes it reads (lines 440-443) and
\* the trailing-week volume has been fetched (lines 496-497)
InitSentiment ==
    /\ InitAnalysis
    /\ InitFetchIdle
    /\ args \in [fn : {"market_sentiment(period)"},
                 period : SentimentPeriods,
                 daily_trend : DailyTrends,
                 volatility_index : VolatilityIndexes,
                 volume_change : VolumeChanges]
    /\ outcome = "unset"
    /\ upstream = "any"
    /\ first_run = NoRun

\* lines 463-537
market_sentiment_of_period ==
    /\ args.fn = "market_sentiment(period)"
    /\ outcome = "unset"
    /\ outcome' = market_sentiment(get_funding_rate(args.period), args.daily_trend,
                                   args.volatility_index, args.volume_change)
    /\ UNCHANGED <<args, upstream, first_run>>
    /\ UNCHANGED <<analysisVars, fetchVars>>

NextSentiment == market_sentiment_of_period

SpecSentiment == InitSentiment /\ [][NextSentiment]_vars


\* ------------------------------------------------------------------------
\* BitgetService.calculate_api_calls (bitget_layer.py, lines 143-170)
\* ------------------------------------------------------------------------
\* line 146
max_candles_per_call == 1000

Min(a, b) == IF a < b THEN a ELSE b

\* mutant: the cap of a call is not applied
CandlesUncapped(total_candles) == total_candles

\* line 157
CandlesInThisCall(total_candles) == Min(total_candles, max_candles_per_call)

\* mutant: the end is the timestamp of the chunk's last bar
ChunkEndInclusive(current_start_time, candles, g_ms) ==
    current_start_time + ((candles - 1) * g_ms)

\* line 158
ChunkEnd(current_start_time, candles, g_ms) ==
    current_start_time + (candles * g_ms)

\* mutant: the next chunk starts one bar before the previous chunk's end
NextChunkStartOverlap(current_end_time, g_ms) == current_end_time - g_ms

\* line 166
NextChunkStart(current_end_time, g_ms) == current_end_time + g_ms

\* mutant: the loop body runs once (an if in place of the while)
ChunkLoopOnce(total_candles, current_start_time, g_ms, calls) ==
    IF total_candles > 0
    THEN Append(calls, [start_time |-> current_start_time,
                        end_time |-> current_start_time
                                     + (Min(total_candles, max_candles_per_call) * g_ms),
                        candles |-> Min(total_candles, max_candles_per_call)])
    ELSE calls

\* the while loop of lines 156-167
RECURSIVE ChunkLoop(_, _, _, _)
ChunkLoop(total_candles, current_start_time, g_ms, calls) ==
    IF total_candles > 0
    THEN LET candles_in_this_call == CandlesInThisCall(total_candles)
             current_end_time == ChunkEnd(current_start_time, candles_in_this_call, g_ms)
         IN  ChunkLoop(total_candles - candles_in_this_call,
                       NextChunkStart(current_end_time, g_ms),
                       g_ms,
                       Append(calls, [start_time |-> current_start_time,
                                      end_time |-> current_end_time,
                                      candles |-> candles_in_this_call]))
    ELSE calls

\* mutant: a started bar counts as a bar (the bar count is rounded up)
calculate_api_calls_ceil(s, e, g_ms) ==
    LET total_candles == ((e - s) + g_ms - 1) \div g_ms
    IN  IF total_candles = 0 THEN <<>> ELSE ChunkLoop(total_candles, s, g_ms, <<>>)

\* lines 143-170; Python's // and \div both round towards minus infinity
calculate_api_calls(s, e, g_ms) ==
    LET time_diff == e - s
        total_candles == time_diff \div g_ms
    IN  IF total_candles = 0 THEN <<>> ELSE ChunkLoop(total_candles, s, g_ms, <<>>)

\* ------------------------------------------------------------------------
\* Specification of calculate_api_calls applied to bounded inputs
\* ------------------------------------------------------------------------
\* bar durations: small ones, and the code's one minute in milliseconds
ChunkBarDurations == {1, 2, 7, 60000}
ChunkStarts == {0, 1, 5000}
\* numbers of whole bars of a window: none or a few, and around whole pages
BarCounts ==
    (0..MaxExtra) \cup
    {k * max_candles_per_call + d : k \in 1..MaxPages, d \in (0 - MaxExtra)..MaxExtra}
\* the part of the window after its last whole bar
Remainders(g_ms) == {0, g_ms - 1}

InitChunk ==
    /\ InitAnalysis
    /\ InitCallIdle
    /\ fpc = "chunk_args"
    /\ granularity = ""
    /\ granularity_ms \in ChunkBarDurations
    /\ start_time \in ChunkStarts
    /\ \E n \in BarCounts, r \in Remainders(granularity_ms) :
          end_time = start_time + n * granularity_ms + r
    /\ api_calls = <<>>
    /\ call_i = 0
    /\ startTime = Absent
    /\ endTime = Absent
    /\ requests = <<>>
    /\ responses = <<>>
    /\ final_result = <<>>

\* a call calculate_api_calls(start_time, end_time, granularity_ms)
calculate_api_calls_call ==
    /\ fpc = "chunk_args"
    /\ api_calls' = calculate_api_calls(start_time, end_time, granularity_ms)
    /\ fpc' = "chunk_done"
    /\ UNCHANGED <<granularity, start_time, end_time, granularity_ms, call_i,
                   startTime, endTime, requests, responses, final_result>>
    /\ UNCHANGED analysisVars
    /\ UNCHANGED callVars

SpecChunk == InitChunk /\ [][calculate_api_calls_call]_vars

\* ------------------------------------------------------------------------
\* BitgetService.convert_granularity_to_ms and get_candlestick_chart
\* (bitget_layer.py, lines 173-257)
\* ------------------------------------------------------------------------
\* stands for "raise ValueError" in the value of convert_granularity_to_ms
RaisesValueError == 0 - 1

\* mutant: the branch of one identifier is missing
convert_granularity_without_12H(g) ==
    CASE g = "1m" -> 60 * TicksPerSecond
      [] g = "5m" -> 5 * 60 * TicksPerSecond
      [] g = "15m" -> 15 * 60 * TicksPerSecond
      [] g = "30m" -> 30 * 60 * TicksPerSecond
      [] g = "1H" -> 3600 * TicksPerSecond
      [] g = "4H" -> 4 * 3600 * TicksPerSecond
      [] g = "1D" -> 24 * 3600 * TicksPerSecond
      [] g = "1W" -> 7 * 24 * 3600 * TicksPerSecond
      [] g = "1MO" -> 30 * 24 * 3600 * TicksPerSecond
      [] OTHER -> RaisesValueError

\* lines 173-195
convert_granularity_to_ms(g) ==
    CASE g = "1m" -> 60 * TicksPerSecond
      [] g = "5m" -> 5 * 60 * TicksPerSecond
      [] g = "15m" -> 15 * 60 * TicksPerSecond
      [] g = "30m" -> 30 * 60 * TicksPerSecond
      [] g = "1H" -> 3600 * TicksPerSecond
      [] g = "4H" -> 4 * 3600 * TicksPerSecond
      [] g = "12H" -> 12 * 3600 * TicksPerSecond
      [] g = "1D" -> 24 * 3600 * TicksPerSecond
      [] g = "1W" -> 7 * 24 * 3600 * TicksPerSecond
      [] g = "1MO" -> 30 * 24 * 3600 * TicksPerSecond
      [] OTHER -> RaisesValueError

\* params['limit'], line 204
limit == 1000

\* a batch of candles, evenly spaced by the bar duration: the timestamp of
\* its first candle and the number of candles
Batch(first, n) == [first |-> first, n |-> n]
\* int(data[-1][0]), line 244
LastTimestamp(b, g_ms) == b.first + (b.n - 1) * g_ms

\* the first bar timestamp (a multiple of the bar duration) at or after t
AlignUp(t, g_ms) == ((t + g_ms - 1) \div g_ms) * g_ms

\* What the upstream may answer to the request in flight: a transport
\* failure, a status other than 200, or status 200 with no candle, one candle
\* or every candle of [startTime, endTime] up to the limit, or with the one
\* candle at the end of the window (an upstream that ignores endTime).
Responses ==
    LET from == AlignUp(IF startTime = Absent THEN 0 ELSE startTime, granularity_ms)
        inRange == IF endTime < from THEN 0
                   ELSE ((endTime - from) \div granularity_ms) + 1
        full == Min(limit, inRange)
    IN  {[status |-> "exception", data |-> Batch(0, 0)],
         [status |-> "500", data |-> Batch(0, 0)]}
        \cup {[status |-> "200", data |-> Batch(from, n)] : n \in {0, 1, full}}
        \cup {[status |-> "200", data |-> Batch(AlignUp(end_time, granularity_ms), 1)]}

\* the arguments get_candlestick_chart is called with
RequestedGranularities ==
    {"1m", "5m", "15m", "30m", "1H", "4H", "12H", "1D", "1W", "1MO",
     "1h", "3m", ""}
FetchStarts == {0, 90 * TicksPerSecond}
\* the bar duration the windows of an identifier are built from
WindowBar(g) ==
    IF convert_granularity_to_ms(g) = RaisesValueError
    THEN 60 * TicksPerSecond ELSE convert_granularity_to_ms(g)
\* windows of several pages are requested at one minute only
WindowBarCounts(g) == IF g = "1m" THEN BarCounts ELSE 0..MaxExtra

\* a call get_candlestick_chart(symbol, granularity, start_time, end_time)
InitFetchCall ==
    /\ InitAnalysis
    /\ fpc = "called"
    /\ granularity \in RequestedGranularities
    /\ start_time \in FetchStarts
    /\ \E n \in WindowBarCounts(granularity), r \in {0, 1} :
          end_time = start_time + n * WindowBar(granularity) + r
    /\ granularity_ms = 0
    /\ api_calls = <<>>
    /\ call_i = 0
    /\ startTime = Absent
    /\ endTime = Absent
    /\ requests = <<>>
    /\ responses = <<>>
    /\ final_result = <<>>

InitFetch == InitFetchCall /\ InitCallIdle

\* line 208
get_candlestick_chart_convert ==
    /\ fpc = "called"
    /\ IF convert_granularity_to_ms(granularity) = RaisesValueError
       THEN /\ fpc' = "raised_ValueError"
            /\ UNCHANGED granularity_ms
       ELSE /\ fpc' = "converted"
            /\ granularity_ms' = convert_granularity_to_ms(granularity)
    /\ UNCHANGED <<granularity, start_time, end_time, api_calls, call_i,
                   startTime, endTime, requests, responses, final_result>>
    /\ UNCHANGED analysisVars
    /\ UNCHANGED callVars

\* line 209
get_candlestick_chart_chunk ==
    /\ fpc = "converted"
    /\ api_calls' = calculate_api_calls(start_time, end_time, granularity_ms)
    /\ call_i' = 1
    /\ fpc' = "loop"
    /\ UNCHANGED <<granularity, start_time, end_time, granularity_ms,
                   startTime, endTime, requests, responses, final_result>>
    /\ UNCHANGED analysisVars
    /\ UNCHANGED callVars

\* lines 214-220: the next chunk's request is issued
get_candlestick_chart_request ==
    /\ fpc = "loop"
    /\ call_i <= Len(api_calls)
    /\ startTime' = IF start_time # 0 THEN api_calls[call_i].start_time ELSE startTime
    /\ endTime' = IF end_time # 0 THEN api_calls[call_i].end_time ELSE endTime
    /\ requests' = Append(requests, [startTime |-> startTime', endTime |-> endTime'])
    /\ fpc' = "awaiting"
    /\ UNCHANGED <<granularity, start_time, end_time, granularity_ms, api_calls,
                   call_i, responses, final_result>>
    /\ UNCHANGED analysisVars
    /\ UNCHANGED callVars

\* lines 214, 257: no chunk is left
get_candlestick_chart_exhausted ==
    /\ fpc = "loop"
    /\ call_i > Len(api_calls)
    /\ fpc' = "returned"
    /\ UNCHANGED <<granularity, start_time, end_time, granularity_ms, api_calls,
                   call_i, startTime, endTime, requests, responses,
                   final_result>>
    /\ UNCHANGED analysisVars
    /\ UNCHANGED callVars

\* mutant: the new batch is stacked above the rows accumulated so far
StackBelowNewBatch(result, batch) == <<batch>> \o result

\* np.vstack([final_result, np_data]), line 242
Stack(result, batch) == Append(result, batch)

\* mutant: the loop stops only when the last candle is past end_time
ReachedEndStrictly(last_timestamp) == end_time # 0 /\ last_timestamp > end_time

\* line 247: end_time and last_timestamp >= end_time
ReachedEnd(last_timestamp) == end_time # 0 /\ last_timestamp >= end_time

\* lines 220-255: the response to the request in flight
get_candlestick_chart_response(resp) ==
    /\ fpc = "awaiting"
    /\ responses' = Append(responses, resp)
    /\ CASE resp.status = "exception" ->
              \* session.get raises; nothing in the function catches it
              /\ fpc' = "raised_ClientError"
              /\ UNCHANGED <<final_result, startTime, call_i>>
         [] resp.status = "500" ->
              /\ fpc' = "returned"
              /\ UNCHANGED <<final_result, startTime, call_i>>
         [] resp.status = "200" /\ resp.data.n = 0 ->
              /\ fpc' = "returned"
              /\ UNCHANGED <<final_result, startTime, call_i>>
         [] OTHER ->
              /\ final_result' = Stack(final_result, resp.data)
              /\ IF ReachedEnd(LastTimestamp(resp.data, granularity_ms))
                 THEN /\ fpc' = "returned"
                      /\ UNCHANGED <<startTime, call_i>>
                 ELSE /\ startTime' = LastTimestamp(resp.data, granularity_ms) + 1
                      /\ call_i' = call_i + 1
                      /\ fpc' = "loop"
    /\ UNCHANGED <<granularity, start_time, end_time, granularity_ms, api_calls,
                   endTime, requests>>
    /\ UNCHANGED analysisVars
    /\ UNCHANGED callVars

\* the request in flight is answered
get_candlestick_chart_resume ==
    /\ fpc = "awaiting"
    /\ \E resp \in Responses : get_candlestick_chart_response(resp)

NextFetch ==
    \/ get_candlestick_chart_convert
    \/ get_candlestick_chart_chunk
    \/ get_candlestick_chart_request
    \/ get_candlestick_chart_exhausted
    \/ get_candlestick_chart_resume

SpecFetch == InitFetch /\ [][NextFetch]_vars

\* ------------------------------------------------------------------------
\* get_candlestick_chart against an upstream that holds every bar
\* ------------------------------------------------------------------------
\* The upstream holds a bar at every multiple of the bar duration and
\* answers a request with the bars of [startTime, endTime], ascending, at
\* most limit of them: the earliest ones or the latest ones of the interval.
CompleteResponses ==
    LET from == AlignUp(IF startTime = Absent THEN 0 ELSE startTime, granularity_ms)
        inRange == IF endTime < from THEN 0
                   ELSE ((endTime - from) \div granularity_ms) + 1
        full == Min(limit, inRange)
    IN  {[status |-> "200", data |-> Batch(from, full)],
         [status |-> "200",
          data |-> Batch(from + (inRange - full) * granularity_ms, full)]}

\* the request in flight is answered by that upstream
get_candlestick_chart_resume_complete ==
    /\ fpc = "awaiting"
    /\ \E resp \in CompleteResponses : get_candlestick_chart_response(resp)

NextFetchComplete ==
    \/ get_candlestick_chart_convert
    \/ get_candlestick_chart_chunk
    \/ get_candlestick_chart_request
    \/ get_candlestick_chart_exhausted
    \/ get_candlestick_chart_resume_complete

SpecFetchComplete == InitFetch /\ [][NextFetchComplete]_vars

\* ------------------------------------------------------------------------
\* get_candlestick_chart called twice against a static upstream
\* ------------------------------------------------------------------------
\* What a static upstream holds decides its answer to a request: the bars of
\* [startTime, endTime] at every multiple of the bar duration, of which it
\* returns the earliest or the latest up to the limit, or only the first
\* one; no bar at all; or it answers every request with status 500, or it
\* cannot be reached.
Upstreams == {"earliest", "latest", "first_only", "no_bars", "status_500",
              "unreachable"}

StaticResponse(held) ==
    LET from == AlignUp(IF startTime = Absent THEN 0 ELSE startTime, granularity_ms)
        inRange == IF endTime < from THEN 0
                   ELSE ((endTime - from) \div granularity_ms) + 1
        full == Min(limit, inRange)
    IN  CASE held = "unreachable" -> [status |-> "exception", data |-> Batch(0, 0)]
          [] held = "status_500" -> [status |-> "500", data |-> Batch(0, 0)]
          [] held = "no_bars" -> [status |-> "200", data |-> Batch(from, 0)]
          [] held = "first_only" -> [status |-> "200", data |-> Batch(from, Min(1, inRange))]
          [] held = "earliest" -> [status |-> "200", data |-> Batch(from, full)]
          [] held = "latest" ->
                [status |-> "200",
                 data |-> Batch(from + (inRange - full) * granularity_ms, full)]

\* mutant: the request parameters of the previous call are reused
ParamsKept(leftover) == leftover

\* lines 200-205: params is a new dict in every call, with no startTime and
\* no endTime, whatever an earlier call left in its own
Params(leftover) == [startTime |-> Absent, endTime |-> Absent]

InitFetchTwice ==
    /\ InitFetchCall
    /\ args = NoArgs
    /\ outcome = "unset"
    /\ upstream \in Upstreams
    /\ first_run = NoRun

\* the request in flight is answered by the static upstream
get_candlestick_chart_resume_static ==
    /\ fpc = "awaiting"
    /\ get_candlestick_chart_response(StaticResponse(upstream))

FetchEnded == fpc \in {"returned", "raised_ValueError", "raised_ClientError"}

\* the first call has returned or raised; the caller keeps what it issued
\* and returned and calls get_candlestick_chart again with the same
\* arguments (lines 197-205)
get_candlestick_chart_again ==
    /\ FetchEnded
    /\ ~first_run.done
    /\ first_run' = [done |-> TRUE, fpc |-> fpc, requests |-> requests,
                     final_result |-> final_result]
    /\ fpc' = "called"
    /\ granularity_ms' = 0
    /\ api_calls' = <<>>
    /\ call_i' = 0
    /\ startTime' = Params([startTime |-> startTime, endTime |-> endTime]).startTime
    /\ endTime' = Params([startTime |-> startTime, endTime |-> endTime]).endTime
    /\ requests' = <<>>
    /\ responses' = <<>>
    /\ final_result' = <<>>
    /\ UNCHANGED <<granularity, start_time, end_time>>
    /\ UNCHANGED <<args, outcome, upstream>>
    /\ UNCHANGED analysisVars

NextFetchTwice ==
    \/ get_candlestick_chart_convert
    \/ get_candlestick_chart_chunk
    \/ get_candlestick_chart_request
    \/ get_candlestick_chart_exhausted
    \/ get_candlestick_chart_resume_static
    \/ get_candlestick_chart_again

SpecFetchTwice == InitFetchTwice /\ [][NextFetchTwice]_vars

\* ------------------------------------------------------------------------
\* get_candlestick_chart on any window, every request answered in the end
\* ------------------------------------------------------------------------
\* The window may be reversed (end_time before start_time).  The event loop
\* keeps running the coroutine, and the request in flight is answered or
\* fails in the end.
ReversedEnds == {start_time - 1, start_time - 60 * TicksPerSecond, 0}

InitFetchFair ==
    /\ InitAnalysis
    /\ InitCallIdle
    /\ fpc = "called"
    /\ granularity \in RequestedGranularities
    /\ start_time \in FetchStarts
    /\ \/ \E n \in WindowBarCounts(granularity), r \in {0, 1} :
             end_time = start_time + n * WindowBar(granularity) + r
       \/ /\ start_time > 0
          /\ end_time \in ReversedEnds
    /\ granularity_ms = 0
    /\ api_calls = <<>>
    /\ call_i = 0
    /\ startTime = Absent
    /\ endTime = Absent
    /\ requests = <<>>
    /\ responses = <<>>
    /\ final_result = <<>>

SpecFetchFair == InitFetchFair /\ [][NextFetch]_vars /\ WF_vars(NextFetch)

\* ------------------------------------------------------------------------
\* Claims about set_analysis
\* ------------------------------------------------------------------------
\* the phases of section 4.4 of the design
Phase ==
    CASE pc = "pending" -> "Pending"
      [] pc = "gather" -> "FannedOut"
      [] pc \in {"volatility", "fusion", "ms_8h", "ms_8h_4H", "ms_10m",
                 "ms_volume_weekly", "report"} -> "Fused"
      [] pc = "done" -> "Done"
      [] pc = "failed" -> "Failed"

PhaseRank(ph) ==
    CASE ph = "Pending" -> 0
      [] ph = "FannedOut" -> 1
      [] ph = "Fused" -> 2
      [] ph = "Done" -> 3
      [] ph = "Failed" -> 4

\* C1: get_volatility_index runs (reads self.df10m) only when get_10m_variation
\* and the four other fanned-out tasks have completed and the join was passed,
\* it requests nothing from upstream, and the phases only advance
\* Pending -> Fanned-out -> Fused -> Done (a failure leaves the sequence for good).
C1_VolatilityAfterJoin ==
    [][ /\ (pc = "volatility" /\ pc' # pc) =>
             /\ task["m10"] = "done"
             /\ AllDone
             /\ Phase = "Fused"
             /\ fetched' = fetched
        /\ volatility_index' # volatility_index => (pc = "volatility" /\ AllDone)
        /\ (Phase # "Failed" /\ Phase' # "Failed") =>
             PhaseRank(Phase') \in {PhaseRank(Phase), PhaseRank(Phase) + 1}
        /\ Phase = "Failed" => Phase' = "Failed"
      ]_vars

\* the volatility step has run after a join, from the series of the fan-out
C1_Witness ==
    /\ pc = "fusion"
    /\ volatility_index = "float"
    /\ df10m.present

\* C2: when set_analysis awaits the fan-out every one of the five tasks has
\* been started, no task runs while another is still an unstarted coroutine,
\* and set_analysis is past the fan-out only when all five have completed.
C2_AllInFlightThenJoin ==
    /\ pc # "pending" => \A t \in TaskIds : task[t] # "created"
    /\ (\E t \in TaskIds : task[t] \notin {"created", "scheduled"}) =>
          \A t \in TaskIds : task[t] # "created"
    /\ Phase \in {"Fused", "Done"} => AllDone

\* the join is passed with the five fetches issued and completed
C2_Witness ==
    /\ pc = "volatility"
    /\ AllDone
    /\ \A t \in TaskIds : fetched[TaskWindow(t)] >= 1

\* C3: no series field is written by more than one fanned-out task.
C3_SingleWriter ==
    \A f \in Fields : Cardinality(writers[f]) <= 1

\* C4: once a fanned-out computation has failed hard, set_analysis returns no
\* report, in any completion order, and it raises.
C4_HardFailureFailsAnalysis ==
    /\ [](SomeFailed => (pc \in {"gather", "failed"} /\ report = "unset"))
    /\ (SomeFailed ~> pc = "failed")

\* the 8h variation failed after its fallback, the four other tasks completed
C4_Witness ==
    /\ pc = "failed"
    /\ task["h8"] = "failed"
    /\ fetched[W8hCoarse] = 1
    /\ \A t \in TaskIds \ {"h8"} : task[t] = "done"
    /\ report = "unset"

\* ------------------------------------------------------------------------
\* Claims about calculate_api_calls
\* ------------------------------------------------------------------------
\* number of whole bars of the window
TotalBars == (end_time - start_time) \div granularity_ms

ChunkerReturned == fpc = "chunk_done"

RECURSIVE SumCandles(_)
SumCandles(calls) ==
    IF calls = <<>> THEN 0 ELSE Head(calls).candles + SumCandles(Tail(calls))

\* C5: for end > start the chunks are in strictly increasing order of start
\* time, no two of them overlap, and their candle counts sum to
\* (end - start) div bar_ms.
C5_OrderedDisjointSum ==
    (ChunkerReturned /\ end_time > start_time) =>
        /\ \A i, j \in DOMAIN api_calls :
              i < j => /\ api_calls[i].start_time < api_calls[j].start_time
                       /\ api_calls[i].end_time <= api_calls[j].start_time
        /\ \A i \in DOMAIN api_calls : api_calls[i].start_time < api_calls[i].end_time
        /\ SumCandles(api_calls) = TotalBars

\* a window of several chunks that does not end on a bar boundary
C5_Witness ==
    /\ ChunkerReturned
    /\ end_time > start_time
    /\ Len(api_calls) >= 3
    /\ (end_time - start_time) % granularity_ms # 0
    /\ SumCandles(api_calls) = TotalBars

\* the chunks whose half-open interval [start_time, end_time) holds time t
ChunksHolding(t) ==
    {i \in DOMAIN api_calls :
        api_calls[i].start_time <= t /\ t < api_calls[i].end_time}

\* C6: every bar slot start + k*bar_ms, 0 <= k < (end - start) div bar_ms, lies
\* in the half-open interval of exactly one chunk.
C6_GaplessAtBarGranularity ==
    (ChunkerReturned /\ end_time > start_time) =>
        \A k \in 0..(TotalBars - 1) :
            Cardinality(ChunksHolding(start_time + k * granularity_ms)) = 1

\* C7: each chunk ends candles*bar_ms after its start, the first chunk starts
\* at start, each later chunk starts one bar_ms after the previous chunk's end;
\* the window (0, 60000*1000*2) at 60000 gives two chunks of 1000 bars, the
\* second starting at 1000*60000 + 60000.
C7_ChunkBoundaries ==
    ChunkerReturned =>
        /\ \A i \in DOMAIN api_calls :
              /\ api_calls[i].end_time =
                    api_calls[i].start_time + api_calls[i].candles * granularity_ms
              /\ i = 1 => api_calls[i].start_time = start_time
              /\ i > 1 => api_calls[i].start_time =
                             api_calls[i - 1].end_time + granularity_ms
        /\ (start_time = 0 /\ end_time = 60000 * 1000 * 2 /\ granularity_ms = 60000) =>
              /\ Len(api_calls) = 2
              /\ api_calls[1].candles = 1000
              /\ api_calls[2].candles = 1000
              /\ api_calls[2].start_time = 1000 * 60000 + 60000

\* the exact page boundary scenario
C7_Witness ==
    /\ ChunkerReturned
    /\ start_time = 0
    /\ end_time = 60000 * 1000 * 2
    /\ granularity_ms = 60000
    /\ Len(api_calls) = 2
    /\ api_calls[2].start_time = 60060000

\* C8: every chunk holds at least 1 and at most 1000 bars, and only the last
\* chunk may hold fewer than 1000.
C8_ChunkSizes ==
    ChunkerReturned =>
        \A i \in DOMAIN api_calls :
            /\ api_calls[i].candles >= 1
            /\ api_calls[i].candles <= 1000
            /\ i < Len(api_calls) => api_calls[i].candles = 1000

\* full chunks followed by a last chunk that is not full
C8_Witness ==
    /\ ChunkerReturned
    /\ Len(api_calls) >= 2
    /\ api_calls[1].candles = 1000
    /\ api_calls[Len(api_calls)].candles < 1000

\* ------------------------------------------------------------------------
\* Claims about get_candlestick_chart
\* ------------------------------------------------------------------------
\* get_candlestick_chart is past its call of calculate_api_calls
ChunksComputed == fpc \in {"loop", "awaiting", "returned", "raised_ClientError"}

\* C9: for a window of zero whole bars calculate_api_calls returns the empty
\* sequence, and get_candlestick_chart then issues no upstream request and
\* returns an empty series, without raising.
C9_ZeroBarWindow ==
    (ChunksComputed /\ TotalBars = 0) =>
        /\ api_calls = <<>>
        /\ requests = <<>>
        /\ final_result = <<>>
        /\ fpc \in {"loop", "returned"}

\* the empty window (t, t) has been fetched
C9_Witness ==
    /\ fpc = "returned"
    /\ end_time = start_time
    /\ start_time # 0
    /\ api_calls = <<>>
    /\ requests = <<>>
    /\ final_result = <<>>

\* the identifiers the interface accepts (section 6 of the design)
AcceptedGranularities ==
    {"1m", "5m", "15m", "30m", "1H", "4H", "12H", "1D", "1W", "1MO"}

\* C10: for an identifier outside the accepted set get_candlestick_chart
\* raises the unsupported-granularity error with no chunk computed and no
\* upstream request issued; for an identifier of the set it never raises it.
C10_UnsupportedGranularity ==
    /\ (granularity \notin AcceptedGranularities /\ fpc # "called") =>
          /\ fpc = "raised_ValueError"
          /\ granularity_ms = 0
          /\ api_calls = <<>>
          /\ call_i = 0
          /\ requests = <<>>
    /\ granularity \in AcceptedGranularities => fpc # "raised_ValueError"

\* an unknown identifier has been rejected
C10_Witness ==
    /\ fpc = "raised_ValueError"
    /\ granularity = "1h"
    /\ end_time > start_time
    /\ requests = <<>>

\* ------------------------------------------------------------------------
\* Claims about the request loop of get_candlestick_chart
\* ------------------------------------------------------------------------
\* a response whose candles the loop stacks onto the series
IsReceivedBatch(r) == r.status = "200" /\ r.data.n > 0
\* the batches of the responses rs, in the order they were received
ReceivedBatches(rs) ==
    LET kept == SelectSeq(rs, IsReceivedBatch)
    IN  [i \in 1..Len(kept) |-> kept[i].data]

\* C11: the chunk sequence is computed once; at most one upstream request is
\* issued per chunk, in chunk order and one at a time (a request is issued
\* only after the response to the one before has been processed); the series
\* is the concatenation of the received batches in the order received.
C11_SequentialInChunkOrder ==
    /\ ChunksComputed =>
          api_calls = calculate_api_calls(start_time, end_time, granularity_ms)
    /\ Len(requests) <= Len(api_calls)
    /\ \A i \in 1..Len(requests) : requests[i].endTime = api_calls[i].end_time
    /\ Len(responses) <= Len(requests)
    /\ Len(requests) <= Len(responses) + 1
    /\ (Len(requests) = Len(responses) + 1) <=> (fpc = "awaiting")
    /\ fpc \in {"loop", "awaiting"} => Len(requests) \in {call_i - 1, call_i}
    /\ final_result = ReceivedBatches(responses)

\* a call over more than one chunk has returned two batches, the second
\* one starting after the first
C11_Witness ==
    /\ fpc = "returned"
    /\ Len(api_calls) >= 2
    /\ Len(requests) = 2
    /\ Len(final_result) = 2
    /\ final_result[1].first < final_result[2].first

\* a response that ends the loop early: an empty batch, or a batch whose
\* last candle is at or after the requested end
EndsLoop(r) ==
    /\ r.status = "200"
    /\ \/ r.data.n = 0
       \/ LastTimestamp(r.data, granularity_ms) >= end_time

\* C12: a response with an empty batch, or with a batch whose last candle
\* is at or after end_time, is the last one: no request follows it, also
\* when chunks remain, and the call returns the batches received up to and
\* including that response.
C12_StopsAtEmptyOrEnd ==
    \A i \in 1..Len(responses) :
        EndsLoop(responses[i]) =>
            /\ i = Len(responses)
            /\ Len(requests) = i
            /\ fpc = "returned"
            /\ final_result = ReceivedBatches(responses)

\* with a chunk left, the call has returned after a batch that reached
\* end_time, and that batch closes the series
C12_Witness ==
    /\ fpc = "returned"
    /\ Len(requests) < Len(api_calls)
    /\ Len(responses) = Len(requests)
    /\ Len(responses) >= 1
    /\ responses[Len(responses)].data.n > 0
    /\ EndsLoop(responses[Len(responses)])
    /\ final_result[Len(final_result)] = responses[Len(responses)].data

\* an upstream failure: the transport failed, or the status is not 200
IsUpstreamFailure(r) == r.status \in {"exception", "500"}

C14_GaplessSeries ==
    fpc = "returned" =>
        LET g == granularity_ms
            n == Len(final_result)
            firstBar == AlignUp(start_time, g)
            lastWholeBar == ((end_time \div g) - 1) * g
        IN  /\ \A i \in 1..(n - 1) :
                  final_result[i + 1].first = LastTimestamp(final_result[i], g) + g
            /\ lastWholeBar >= firstBar =>
                  /\ n >= 1
                  /\ final_result[1].first <= firstBar
                  /\ LastTimestamp(final_result[n], g) >= lastWholeBar

\* ------------------------------------------------------------------------
\* Claims about the computations of set_analysis
\* ------------------------------------------------------------------------
IsPrefix(s, t) == Len(s) <= Len(t) /\ SubSeq(t, 1, Len(s)) = s
\* how many times event e is in trace tr
Occurrences(tr, e) == Cardinality({i \in 1..Len(tr) : tr[i] = e})

\* the three complete courses of a get_8h_variation call
H8Courses ==
    {<<"fetch_1H", "data">>,
     <<"fetch_1H", "empty", "fetch_4H", "data">>,
     <<"fetch_1H", "empty", "fetch_4H", "empty", "raise">>}

\* C15: get_8h_variation fetches its window at 1H first; only if that
\* series is empty it fetches the same window once more, at 4H; it raises
\* the data-unavailable failure only after both fetches came back empty,
\* and it never fetches a third time.
C15_FallbackOnce ==
    /\ \E course \in H8Courses : IsPrefix(h8_trace, course)
    /\ pc \in {"pending", "gather"} =>
          /\ fetched[W8h] = Occurrences(h8_trace, "fetch_1H")
          /\ fetched[W8hCoarse] = Occurrences(h8_trace, "fetch_4H")

\* both fetches of the fanned-out get_8h_variation came back empty and it
\* has raised
C15_Witness ==
    /\ pc = "gather"
    /\ task["h8"] = "failed"
    /\ h8_trace = <<"fetch_1H", "empty", "fetch_4H", "empty", "raise">>
    /\ fetched[W8h] = 1
    /\ fetched[W8hCoarse] = 1

NumericFields ==
    {"h8_variation", "h10m_variation", "volatility_index", "average_trading_volume"}

\* C16: in every report set_analysis returns, each numeric field is a
\* finite number or None: no NaN and no infinity reaches the caller.
C16_ReportIsFinite ==
    pc = "done" =>
        \A f \in NumericFields : report[f] \in {"float", "0.0", "None"}

\* a report has been returned whose 8h variation was NaN and whose average
\* volume was an infinity
C16_Witness ==
    /\ pc = "done"
    /\ ret["h8"] = "nan"
    /\ ret["volume"] = "inf"
    /\ report["h8_variation"] = "None"
    /\ report["average_trading_volume"] = "None"

\* C17: once the fan-out has populated the short-horizon series, its rows
\* are never changed for the rest of the analysis: no later step drops a
\* row or replaces the series.
C17_ShortSeriesFrozen ==
    [][df10m.present => df10m' = df10m]_vars

\* the number of valid log-returns a series yields: one less than its rows
\* with a positive close
ValidLogReturns(rows) ==
    LET positive == Cardinality({i \in 1..Len(rows) : rows[i] = "ok"})
    IN  IF positive = 0 THEN 0 ELSE positive - 1

\* C19: get_volatility_index on a series that was never populated gives an
\* outcome that no populated series gives: it does not return a value,
\* while a populated series with fewer than 2 valid log-returns returns
\* None.
C19_UnpopulatedIsDistinct ==
    [][(volatility_index = "unset" /\ volatility_index' # "unset") =>
          /\ ~df10m.present => volatility_index' \notin {"None", "float"}
          /\ (df10m.present /\ ValidLogReturns(df10m.rows) < 2) =>
                volatility_index' = "None"]_vars

\* get_volatility_index was called before get_10m_variation had stored its
\* series, and it raised
C19_Witness ==
    /\ pc = "direct"
    /\ volatility_index = "ValueError"
    /\ task["m10"] = "fetching"
    /\ ~df10m.present

\* the rows of a fetched series whose close is a number
ValidCloses(rows) == Cardinality({i \in 1..Len(rows) : rows[i] # "nan"})

\* C20: for every fetched short-horizon series, of any length (0 and 1
\* rows included), that keeps fewer than 2 rows with a valid close after
\* cleaning, get_10m_variation returns 0.0 and does not raise.
C20_TooFewRowsReturnsZero ==
    (task["m10"] \in {"done", "failed"} /\ ValidCloses(m10_data) < 2) =>
        /\ task["m10"] = "done"
        /\ ret["m10"] = "0.0"

\* ------------------------------------------------------------------------
\* Claims about two invocations on one instance
\* ------------------------------------------------------------------------
\* the report invocation i returns when it runs alone on a fresh instance
\* against the upstream data of PeriodSeries
AloneReport(i) ==
    LET rows == DropNa(PeriodSeries(i, "1m"))
    IN  [h8_variation |-> "float",
         h10m_variation |-> Variation10m(rows, "float"),
         daily_trend |-> "trend",
         weekly_trend |-> "trend",
         volatility_index |-> VolatilityValue(VolatilityRows(rows), "float"),
         average_trading_volume |-> "float",
         market_sentiment |-> "label"]

\* C18: two set_analysis invocations with different periods, interleaved at
\* their fetches on the same FundingRateChart, each return exactly the
\* report they return when run alone against the same upstream data.
C18_Reentrant ==
    /\ pc = "done" => report = AloneReport(current)
    /\ other.pc = "done" => other.report = AloneReport(OtherOf(current))

\* ------------------------------------------------------------------------
\* Claims about the trend classifiers
\* ------------------------------------------------------------------------
Classified == args.fn \in {"get_daily_trend", "get_weekly_trends"} /\ outcome # "unset"

\* C21: for the daily and for the weekly classifier, when the latest short
\* or long moving average is undefined because the series is shorter than
\* the lookback, the result is "neutral".
C21_ShortSeriesIsNeutral ==
    (Classified /\ (args.ma_short = NaN \/ args.ma_long = NaN)) =>
        outcome = "neutral"

\* the sideways threshold of a classifier, in thousandths
SidewaysPermille == IF args.fn = "get_daily_trend" THEN 3 ELSE 10

\* C22: for the daily and for the weekly classifier, when both moving
\* averages are defined, their relative difference is below the sideways
\* threshold and the volatility threshold is not exceeded, the result is
\* "sideways" wherever the latest close lies.
C22_SidewaysWhateverThePrice ==
    (/\ Classified
     /\ RelDiffBelow(args.ma_short, args.ma_long, SidewaysPermille)
     /\ ~Gt(args.volatility, 200)) =>
        outcome = "sideways"

\* the label the classifier gives the same quantities when the volatility
\* threshold is not exceeded
CalmLabel ==
    IF args.fn = "get_daily_trend"
    THEN daily_trend(args.latest_close, args.ma_short, args.ma_long, 0)
    ELSE weekly_trend(args.latest_close, args.ma_short, args.ma_long, 0,
                      args.weekly_change_pct)

\* C23: for the daily and for the weekly classifier, when the standard
\* deviation exceeds the volatility threshold (and both moving averages are
\* defined) the result is "volatile bullish" if a bullish direction was
\* established, "volatile bearish" if a bearish one was, and "volatile"
\* only when none was.
C23_VolatileKeepsDirection ==
    (/\ Classified
     /\ args.ma_short # NaN /\ args.ma_long # NaN
     /\ Gt(args.volatility, 200)) =>
        outcome = IF HasBullish(CalmLabel) THEN "volatile bullish"
                  ELSE IF HasBearish(CalmLabel) THEN "volatile bearish"
                  ELSE "volatile"

\* the enumerated trend values (section 6 of the design)
TrendValues ==
    {"strongly bullish", "bullish", "neutral", "sideways", "bearish",
     "strongly bearish", "volatile bullish", "volatile bearish", "volatile"}

\* C24: every value get_daily_trend and get_weekly_trends return is one of
\* the enumerated trend values.
C24_TrendIsEnumerated ==
    Classified => outcome \in TrendValues

\* ------------------------------------------------------------------------
\* Claims about the vote fusion
\* ------------------------------------------------------------------------
Fused == args.fn = "market_sentiment" /\ outcome # "unset"
Votes ==
    Sentiments(args.funding_rate, args.daily_trend, args.volatility_index,
               args.volume_change)
BullishSide == Cardinality({i \in 1..4 : Votes[i] \in {"bullish", "optimistic", "positive"}})
BearishSide == Cardinality({i \in 1..4 : Votes[i] \in {"bearish", "pessimistic", "negative"}})
PriceVote == Votes[2]
VolatilityVote == Votes[3]
SentimentValues ==
    {"positive", "negative", "neutral", "highly positive", "highly negative",
     "mixed", "uncertain", "fearful", "optimistic", "pessimistic", "bullish",
     "bearish"}

\* C25: for every combination of the four votes without an "uncertain"
\* volatility vote, with b bullish-side and r bearish-side votes: b = r gives
\* "mixed"; b > r gives "highly positive" if b >= 3, else "bullish" if the
\* price-trend vote is bullish, else "positive"; r > b gives "highly
\* negative" if r >= 3, else "bearish" if the price-trend vote is bearish,
\* else "negative"; the result is an enumerated sentiment value.
C25_VoteFusion ==
    (Fused /\ VolatilityVote # "uncertain") =>
        /\ outcome \in SentimentValues
        /\ outcome =
             IF BullishSide = BearishSide THEN "mixed"
             ELSE IF BullishSide > BearishSide
             THEN IF BullishSide >= 3 THEN "highly positive"
                  ELSE IF PriceVote = "bullish" THEN "bullish" ELSE "positive"
             ELSE IF BearishSide >= 3 THEN "highly negative"
                  ELSE IF PriceVote = "bearish" THEN "bearish" ELSE "negative"

\* two bullish-side votes against none, the price trend among them, under
\* the funding rate of the placeholder: the tightened label
C25_Witness ==
    /\ Fused
    /\ args.funding_rate = 1
    /\ VolatilityVote # "uncertain"
    /\ BullishSide = 2 /\ BearishSide = 0
    /\ PriceVote = "bullish"
    /\ outcome = "bullish"

\* C26: whenever the volatility vote is "uncertain" (an index above 50) the
\* sentiment is "uncertain", whatever the other three votes are; the
\* tightening does not change it.
C26_UncertainOverrides ==
    (Fused /\ Gt(args.volatility_index, 50)) =>
        /\ VolatilityVote = "uncertain"
        /\ outcome = "uncertain"

\* a bullish majority with a bullish price trend, which the tightening would
\* relabel, under an index above 50
C26_Witness ==
    /\ Fused
    /\ Gt(args.volatility_index, 50)
    /\ BullishSide = 2 /\ BearishSide = 0
    /\ PriceVote = "bullish"
    /\ outcome = "uncertain"

\* ------------------------------------------------------------------------
\* Claims about repeated and windowed fetches
\* ------------------------------------------------------------------------
\* C27: two runs of get_candlestick_chart with identical arguments against
\* the same static upstream issue the same sequence of requests and return
\* identical series (or end alike); nothing the first run leaves influences
\* the second.
C27_RunsAreIdentical ==
    first_run.done =>
        /\ IsPrefix(requests, first_run.requests)
        /\ FetchEnded =>
              /\ fpc = first_run.fpc
              /\ requests = first_run.requests
              /\ final_result = first_run.final_result

\* a second run from time 0 has ended after two requests, the second with
\* the cursor of the first batch, and returned the batches of the first run
C27_Witness ==
    /\ first_run.done
    /\ fpc = "returned"
    /\ start_time = 0
    /\ Len(requests) = 2
    /\ requests[2].startTime # Absent
    /\ Len(final_result) = 2
    /\ final_result = first_run.final_result

\* C28: within one set_analysis every window is requested from the upstream
\* by at most one computation (the 4H fallback of the 8-hour window counted
\* apart from its 1H request): market_sentiment requests only the
\* trailing-week volume series and does not fetch the 8-hour and the
\* 10-minute window again.
C28_EachWindowFetchedOnce ==
    \A w \in Windows : fetched[w] <= 1

\* C29: for every start_time >= 0 and end_time > start_time, the i-th
\* request carries the start_time of the i-th chunk as startTime and its
\* end_time as endTime, the first request and start_time = 0 included; the
\* cursor last_timestamp + 1 is never the startTime of a request.
C29_RequestsCarryChunkBounds ==
    (start_time >= 0 /\ end_time > start_time) =>
        \A i \in 1..Len(requests) :
            /\ requests[i].startTime = api_calls[i].start_time
            /\ requests[i].endTime = api_calls[i].end_time

\* C30: every chunk lies inside the requested window, however many chunks
\* there are: start <= chunk.start_time < chunk.end_time <= end.
C30_ChunksInsideWindow ==
    ChunkerReturned =>
        \A i \in DOMAIN api_calls :
            /\ start_time <= api_calls[i].start_time
            /\ api_calls[i].start_time < api_calls[i].end_time
            /\ api_calls[i].end_time <= end_time

\* ------------------------------------------------------------------------
\* Claims about termination
\* ------------------------------------------------------------------------
\* ceil(max(total_bars, 0) / 1000)
ChunksNeeded ==
    ((IF TotalBars > 0 THEN TotalBars ELSE 0) + 999) \div 1000

\* C31: for every start and end (end before start included) and every bar
\* duration, calculate_api_calls returns exactly ceil(max(total_bars, 0) /
\* 1000) chunks, get_candlestick_chart issues at most that many requests,
\* and when every request is answered in the end it returns in the end (it
\* raises only for an unsupported identifier or a request that failed).
C31_TerminatesWithinChunks ==
    /\ [](ChunksComputed =>
            /\ Len(api_calls) = ChunksNeeded
            /\ Len(requests) <= ChunksNeeded)
    /\ <>(fpc \in {"returned", "raised_ValueError", "raised_ClientError"})
    /\ [](fpc = "raised_ValueError" =>
            convert_granularity_to_ms(granularity) = RaisesValueError)
    /\ [](fpc = "raised_ClientError" =>
            responses[Len(responses)].status = "exception")

\* a window of more than two pages was fetched with one request per chunk
C31_Witness ==
    /\ fpc = "returned"
    /\ Len(api_calls) = 3
    /\ Len(requests) = 3
    /\ ChunksNeeded = 3

\* ------------------------------------------------------------------------
\* Claims about the reachable sentiments
\* ------------------------------------------------------------------------
\* the votes and the sentiments market_sentiment(period) can produce from
\* the attributes set_analysis hands it
ReachableVotes ==
    {Sentiments(get_funding_rate(p), t, i, v) :
        p \in SentimentPeriods, t \in DailyTrends,
        i \in VolatilityIndexes, v \in VolumeChanges}
ReachableSentiments ==
    {market_sentiment(get_funding_rate(p), t, i, v) :
        p \in SentimentPeriods, t \in DailyTrends,
        i \in VolatilityIndexes, v \in VolumeChanges}
Directional ==
    {"bullish", "optimistic", "positive", "bearish", "pessimistic", "negative"}

\* C32: each of the four votes is directional in some execution; the
\* funding-direction vote is bullish for some inputs and bearish for others,
\* so that "highly positive" and "highly negative" are results of
\* set_analysis for some inputs.
C32_StrongMajorityReachable ==
    (args.fn = "market_sentiment(period)" /\ outcome # "unset") =>
        /\ \A k \in 1..4 : \E votes \in ReachableVotes : votes[k] \in Directional
        /\ \E votes \in ReachableVotes : votes[1] = "bullish"
        /\ \E votes \in ReachableVotes : votes[1] = "bearish"
        /\ "highly positive" \in ReachableSentiments
        /\ "highly negative" \in ReachableSentiments

====
